---- MODULE Spec2Model ----
(***************************************************************************)
(* Model of the go-search command line tool: main (single query, streaming *)
(* and multi-query paths), the retrying executors of search.go, the        *)
(* summarizer, the concurrent orchestrator processMultipleQueries and the  *)
(* two renderers.  The Answer Engine (genai client) is the environment:    *)
(* every call returns an error, an empty text or a non-empty text.         *)
(***************************************************************************)
EXTENDS Integers, Sequences, FiniteSets, TLC

\* ---------------------------------------------------------------- bounds
MaxQueries == 2      \* longest -q list explored
MaxChunks == 2       \* most items one stream attempt yields before it ends

\* ------------------------------------------------------ program constants
MinWorkers == 1
MaxWorkers == 5
MaxAttempts == 2

SummarySentinel == "Summary generation failed"
NoSummaryText == "No summary available"
CheckMark == "[v]"      \* stands for U+2713
CrossMark == "[x]"      \* stands for U+2717
FlagMark == "[F]"       \* stands for U+1F3C1
RuleLine == "-----"     \* stands for the 77 box-drawing characters

\* ------------------------------------------------------------ environment
\* The -q arguments: a command line with n of them gives the first n names.
QueryNames == <<"Go", "Python", "Rust", "Zig">>
\* The -query argument ("" = flag absent).
QueryStrings == {"Go"}
\* Text chunks a stream can carry.
Chunks == {"Hel", "lo"}
\* What an engine call does: fail, return no text, or return a text.
Outcomes == {"err", "empty", "text"}
\* The text the engine gives on attempt k (1 or 2) for a search of query q and
\* for a summary of (q, answer): every call has a text of its own, so that a
\* text found in an outcome names the call it came from.
SearchAnswer(q, k) == "answer " \o ToString(k) \o " to " \o q
SummaryAnswer(q, answer, k) == "summary " \o ToString(k) \o " of " \o answer
\* The error text of a failed engine call (transport failure or cancellation).
TransportError == "call failed"

\* One value returned by client.Models.GenerateContent: (response, err).
\* err = "" stands for nil; a failed call carries no response.
ErrResponse(e) == [err |-> e, text |-> ""]
TextResponse(t) == [err |-> "", text |-> t]
Response(o, text) ==
    IF o = "err" THEN ErrResponse(TransportError)
    ELSE IF o = "empty" THEN TextResponse("")
    ELSE TextResponse(text)

\* One item yielded by the iterator of GenerateContentStream: an error, a
\* response without candidates, or a response with a text chunk.
StreamItems ==
    {[kind |-> "err", text |-> ""], [kind |-> "nocand", text |-> ""]}
        \cup {[kind |-> "chunk", text |-> t] : t \in Chunks \cup {""}}

\* ------------------------------------------------------------ strings
\* strings.Contains
Contains(s, sub) ==
    \E i \in 1..(Len(s) - Len(sub) + 1) : SubSeq(s, i, i + Len(sub) - 1) = sub

Last(s) == s[Len(s)]

\* ------------------------------------------------------------ data model
\* SearchResult (Duration and Timestamp carry no logic and are left out).
ZeroResult == [Query |-> "", Response |-> "", Summary |-> "", Success |-> FALSE, Error |-> ""]
NewResult(q) == [ZeroResult EXCEPT !.Query = q]

ZeroMulti == [Results |-> <<>>, Success |-> FALSE, Error |-> ""]

\* ------------------------------------------------------------ executors
\* Loop exit test of the retry loops: err == nil && response.Text() != "".
AttemptSucceeded(r) == r.err = "" /\ r.text # ""

\* A loop bound off by one: `attempt <= 2`.
LoopExits_ThreeAttempts(log) == AttemptSucceeded(Last(log)) \/ Len(log) >= MaxAttempts + 1

\* The retry loop `for attempt := 0; attempt < 2; attempt++` seen after the
\* attempt whose response was appended last to log (attempt = Len(log) - 1).
LoopExits(log) == AttemptSucceeded(Last(log)) \/ Len(log) >= MaxAttempts
\* if attempt == 0 { time.Sleep(3 * time.Second) }
SleepsBeforeRetry(log) == Len(log) - 1 = 0

\* An executor that reports an empty answer in the outcome only, with a nil error.
performSingleSearch_NilOnEmpty(query, log) ==
    LET r == Last(log) IN
    IF r.err # ""
    THEN [result |-> [NewResult(query) EXCEPT !.Error = "Search failed"],
          err |-> "failed to generate content after retries: " \o r.err]
    ELSE IF r.text = ""
    THEN [result |-> [NewResult(query) EXCEPT !.Error = "Empty response"], err |-> ""]
    ELSE [result |-> [NewResult(query) EXCEPT !.Response = r.text, !.Success = TRUE],
          err |-> ""]

\* performSingleSearch after its loop: the (result, err) pair it returns,
\* decided by the response and error of the last attempt.
performSingleSearch(query, log) ==
    LET r == Last(log) IN
    IF r.err # ""
    THEN [result |-> [NewResult(query) EXCEPT !.Error = "Search failed"],
          err |-> "failed to generate content after retries: " \o r.err]
    ELSE IF r.text = ""
    THEN [result |-> [NewResult(query) EXCEPT !.Error = "Empty response"],
          err |-> "received empty response after retries"]
    ELSE [result |-> [NewResult(query) EXCEPT !.Response = r.text, !.Success = TRUE],
          err |-> ""]

\* generateSummary after its loop: (summary, err).
generateSummary(log) ==
    LET r == Last(log) IN
    IF r.err # ""
    THEN [text |-> "", err |-> "failed to generate summary after retries: " \o r.err]
    ELSE IF r.text = ""
    THEN [text |-> "", err |-> "received empty summary after retries"]
    ELSE [text |-> r.text, err |-> ""]

\* A caller that stores generateSummary's text without looking at the error.
SummaryField_NoSentinel(sumlog) == generateSummary(sumlog).text

\* The summary field a caller stores after generateSummary returned.
SummaryField(sumlog) ==
    LET s == generateSummary(sumlog) IN
    IF s.err # "" THEN SummarySentinel ELSE s.text

\* processQuery up to (not including) the summary: the result built from what
\* performSingleSearch returned.
processQuerySearch(query, ret) ==
    IF ret.err # ""
    THEN [NewResult(query) EXCEPT !.Success = FALSE, !.Error = ret.err]
    ELSE [NewResult(query) EXCEPT !.Response = ret.result.Response,
                                  !.Success = ret.result.Success]

\* A processQuery that summarizes every successful search, asked or not.
WantsSummary_IgnoresFlag(res, includeSummary) == res.Success

\* if result.Success && includeSummary
WantsSummary(res, includeSummary) == res.Success /\ includeSummary

\* A streaming executor that fails on any stream error and keeps the text read.
performSingleSearchStream_KeepsText(query, text, lastE) ==
    IF lastE # ""
    THEN [result |-> [NewResult(query) EXCEPT !.Error = "Stream search failed",
                                              !.Response = text],
          err |-> "failed to stream content after retries: " \o lastE]
    ELSE IF text = ""
    THEN [result |-> [NewResult(query) EXCEPT !.Error = "Empty stream response"],
          err |-> "received empty stream response after retries"]
    ELSE [result |-> [NewResult(query) EXCEPT !.Response = text, !.Success = TRUE],
          err |-> ""]

\* performSingleSearchStream after its loop.
performSingleSearchStream(query, text, lastE) ==
    IF lastE # "" /\ text = ""
    THEN [result |-> [NewResult(query) EXCEPT !.Error = "Stream search failed"],
          err |-> "failed to stream content after retries: " \o lastE]
    ELSE IF text = ""
    THEN [result |-> [NewResult(query) EXCEPT !.Error = "Empty stream response"],
          err |-> "received empty stream response after retries"]
    ELSE [result |-> [NewResult(query) EXCEPT !.Response = text, !.Success = TRUE],
          err |-> ""]

\* A buffer that grows at its front.
AppendChunk_Prepends(text, chunk) == chunk \o text

\* responseText += chunk
AppendChunk(text, chunk) == text \o chunk

\* A break test that looks at the buffer only.
StreamAttemptSucceeded_TextOnly(ok, text) == text # ""

\* if streamSuccess && responseText != "" { break }
StreamAttemptSucceeded(ok, text) == ok /\ text # ""

\* ------------------------------------------------------------ orchestrator
RECURSIVE CountSuccess(_)
CountSuccess(rs) ==
    IF rs = <<>> THEN 0
    ELSE (IF rs[1].Success THEN 1 ELSE 0) + CountSuccess(Tail(rs))

FailureSummary(k, n) ==
    "Completed " \o ToString(k) \o "/" \o ToString(n) \o " queries successfully"

\* A batch that counts as succeeded as soon as one query succeeded.
BuildMultiResult_AnySuccess(rs, n) ==
    LET successCount == CountSuccess(rs)
        ok == successCount > 0
    IN [Results |-> rs, Success |-> ok,
        Error |-> IF ~ok THEN FailureSummary(successCount, n) ELSE ""]

\* processMultipleQueries after wg.Wait(): the MultiSearchResult it returns.
BuildMultiResult(rs, n) ==
    LET successCount == CountSuccess(rs)
        ok == successCount = n
    IN [Results |-> rs, Success |-> ok,
        Error |-> IF ~ok THEN FailureSummary(successCount, n) ELSE ""]

\* ------------------------------------------------------------ config
hasQuery(c) == c.query # ""
hasQueries(c) == Len(c.queries) > 0

\* A validation without the test of -stream against -q.
validateConfig_NoStreamTest(c) ==
    IF ~hasQuery(c) /\ ~hasQueries(c)
    THEN "search query is required (use -query, -q, or positional argument)"
    ELSE IF hasQuery(c) /\ hasQueries(c)
    THEN "cannot use both -query and -q flags simultaneously"
    ELSE IF c.workers < MinWorkers \/ c.workers > MaxWorkers
    THEN "workers must be between 1 and 5"
    ELSE ""

\* validateConfig: the error it returns, "" for nil.
validateConfig(c) ==
    IF ~hasQuery(c) /\ ~hasQueries(c)
    THEN "search query is required (use -query, -q, or positional argument)"
    ELSE IF hasQuery(c) /\ hasQueries(c)
    THEN "cannot use both -query and -q flags simultaneously"
    ELSE IF c.workers < MinWorkers \/ c.workers > MaxWorkers
    THEN "workers must be between 1 and 5"
    ELSE IF c.stream /\ hasQueries(c)
    THEN "streaming mode is not supported for multiple queries (use single query only)"
    ELSE ""

\* handleError's line on stderr.
ErrorLine(context, err) == "Error: " \o context \o ": " \o err \o "\n"

\* ------------------------------------------------------------ renderers
Quoted(t) == "\"" \o t \o "\""
BoolText(b) == IF b THEN "true" ELSE "false"

\* json encoding of a SearchResult: summary and error carry omitempty.
SearchResultJSON(r) ==
    "{\"query\":" \o Quoted(r.Query) \o ",\"response\":" \o Quoted(r.Response)
      \o (IF r.Summary # "" THEN ",\"summary\":" \o Quoted(r.Summary) ELSE "")
      \o ",\"success\":" \o BoolText(r.Success)
      \o (IF r.Error # "" THEN ",\"error\":" \o Quoted(r.Error) ELSE "")
      \o "}"

RECURSIVE ResultsJSON(_)
ResultsJSON(rs) ==
    IF rs = <<>> THEN ""
    ELSE SearchResultJSON(rs[1])
           \o (IF Len(rs) > 1 THEN "," ELSE "") \o ResultsJSON(Tail(rs))

MultiSearchResultJSON(m) ==
    "{\"results\":[" \o ResultsJSON(m.Results) \o "],\"success\":" \o BoolText(m.Success)
      \o (IF m.Error # "" THEN ",\"error\":" \o Quoted(m.Error) ELSE "")
      \o "}"

\* (r *SearchResult) Output: what it prints and the error it returns.
SearchResultOutput(r, outputJSON) ==
    IF outputJSON
    THEN [out |-> <<SearchResultJSON(r) \o "\n">>, errOut |-> <<>>, err |-> ""]
    ELSE IF ~r.Success
    THEN [out |-> <<>>, errOut |-> <<"Search failed: " \o r.Error \o "\n">>,
          err |-> "search failed"]
    ELSE [out |-> (IF r.Summary # ""
                   THEN <<"## SUMMARY\n" \o r.Summary \o "\n\n", "## DETAILED RESPONSE\n">>
                   ELSE <<>>)
                  \o <<r.Response \o "\n">>,
          errOut |-> <<>>, err |-> ""]

\* A summaries section that marks every query as successful.
SummaryLine_SameMark(r) ==
    CheckMark \o " " \o r.Query \o ": "
      \o (IF r.Success THEN (IF r.Summary = "" THEN NoSummaryText ELSE r.Summary)
          ELSE r.Error) \o "\n"

\* One line of the summaries section.
SummaryLine(r) ==
    IF r.Success
    THEN CheckMark \o " " \o r.Query \o ": "
           \o (IF r.Summary = "" THEN NoSummaryText ELSE r.Summary) \o "\n"
    ELSE CrossMark \o " " \o r.Query \o ": " \o r.Error \o "\n"

RECURSIVE SummaryLines(_)
SummaryLines(rs) ==
    IF rs = <<>> THEN <<>> ELSE <<SummaryLine(rs[1])>> \o SummaryLines(Tail(rs))

\* The detailed section of one result; n is len(m.Results).
DetailSection(r, n) ==
    (IF n > 1 THEN <<"=== " \o r.Query \o " ===\n">> ELSE <<>>)
      \o <<IF r.Success THEN r.Response \o "\n" ELSE "Status: FAILED - " \o r.Error \o "\n">>
      \o <<"\n">>

RECURSIVE DetailSections(_, _)
DetailSections(rs, n) ==
    IF rs = <<>> THEN <<>> ELSE DetailSection(rs[1], n) \o DetailSections(Tail(rs), n)

\* (m *MultiSearchResult) Output: what it prints (it returns nil).
MultiSearchResultOutput(m, outputJSON, isStream, includeSummary) ==
    LET n == Len(m.Results)
        successful == CountSuccess(m.Results)
    IN IF outputJSON THEN <<MultiSearchResultJSON(m) \o "\n">>
       ELSE IF isStream
       THEN <<"\n" \o FlagMark \o " COMPLETED: " \o ToString(successful) \o "/"
                \o ToString(n) \o " queries\n">>
       ELSE (IF includeSummary
             THEN <<"## SEARCH RESULTS\n",
                    ToString(successful) \o "/" \o ToString(n)
                      \o " queries completed successfully, here is a summary for each query:\n\n">>
                    \o SummaryLines(m.Results) \o <<"\n", "## DETAILED RESPONSES\n\n">>
             ELSE <<>>)
            \o DetailSections(m.Results, n)

\* ------------------------------------------------------------ state
VARIABLES
    config,        \* *Config as parseFlags returns it, but for outputJSON
    outputMode,    \* config.outputJSON as an Output call read it: "json" or
                   \* "text", and "unread" before; only the two calls of
                   \* Output read the flag, so its value is drawn there
    clientOK,      \* environment: whether genai.NewClient succeeds
    client,        \* "none", "ready" or "failed": initializeClient's effect
    pc,            \* position of main
    exitCode,      \* -1 while the process runs, then its exit status
    stdout,        \* what was written to os.Stdout, one entry per write
    stderr,        \* what was written to os.Stderr
    result,        \* main's *SearchResult of the single-query path
    mlog,          \* single query: (response, err) of each GenerateContent attempt
    msumlog,       \* single query: (result, err) of each summary attempt
    msleeps,       \* single query: retry delays slept by performSingleSearch
    streamLog,     \* streaming: the items consumed in each attempt
    responseText,  \* streaming: responseText
    lastErr,       \* streaming: lastErr ("" for nil)
    deadline,      \* batch: the context of WithTimeout is done
    pending,       \* batch: the queries without a search outcome when it fired
    spawned,       \* batch: goroutines started by the loop so far
    sem,           \* batch: len(sem)
    wg,            \* batch: WaitGroup counter
    results,       \* batch: the results slice
    writes,        \* batch: number of stores into each slot of results
    wpc,           \* batch: position of each goroutine
    wlog,          \* batch: responses of each query's search attempts
    wsumlog,       \* batch: responses of each query's summary attempts
    wsleeps,       \* batch: retry delays slept by each query's search
    multiResult    \* what processMultipleQueries returned

vars == <<config, outputMode, clientOK, client, pc, exitCode, stdout, stderr, result, mlog,
          msumlog, msleeps, streamLog, responseText, lastErr, deadline, pending, spawned,
          sem, wg, results, writes, wpc, wlog, wsumlog, wsleeps, multiResult>>

mainVars == <<result, mlog, msumlog, msleeps>>
streamVars == <<streamLog, responseText, lastErr>>
batchVars == <<deadline, pending, spawned, sem, wg, results, writes, wpc, wlog, wsumlog,
               wsleeps, multiResult>>
ioVars == <<exitCode, stdout, stderr, outputMode>>
envVars == <<config, clientOK>>

N == Len(config.queries)
Workers == 1..N

\* The -workers values explored: the two limits validateConfig accepts last
\* and the two it rejects first.
WorkerInputs == {MinWorkers - 1, MinWorkers, MaxWorkers, MaxWorkers + 1}

\* The command lines explored.
QueryLists == {SubSeq(QueryNames, 1, n) : n \in 0..MaxQueries}
Configs ==
    [query : QueryStrings \cup {""}, queries : QueryLists,
     stream : BOOLEAN, includeSummary : BOOLEAN,
     workers : WorkerInputs]

Init ==
    /\ config \in Configs
    /\ outputMode = "unread"
    /\ clientOK \in BOOLEAN
    /\ client = "none"
    /\ pc = "validate"
    /\ exitCode = -1
    /\ stdout = <<>>
    /\ stderr = <<>>
    /\ result = ZeroResult
    /\ mlog = <<>>
    /\ msumlog = <<>>
    /\ msleeps = 0
    /\ streamLog = <<>>
    /\ responseText = ""
    /\ lastErr = ""
    /\ deadline = FALSE
    /\ pending = {}
    /\ spawned = 0
    /\ sem = 0
    /\ wg = 0
    /\ results = <<>>
    /\ writes = [i \in Workers |-> 0]
    /\ wpc = [i \in Workers |-> "idle"]
    /\ wlog = [i \in Workers |-> <<>>]
    /\ wsumlog = [i \in Workers |-> <<>>]
    /\ wsleeps = [i \in Workers |-> 0]
    /\ multiResult = ZeroMulti

\* ------------------------------------------------------------ main
\* os.Exit(code) / return from main.
Exit(code) == pc' = "exited" /\ exitCode' = code

\* handleError: log line, line on stderr, os.Exit(1).
handleError(err, context) ==
    /\ stderr' = stderr \o <<"ERROR " \o context \o " error=" \o err, ErrorLine(context, err)>>
    /\ Exit(1)

\* main: validateConfig and its handleError.
Validate ==
    /\ pc = "validate"
    /\ IF validateConfig(config) # ""
       THEN /\ handleError(validateConfig(config), "Configuration validation failed")
            /\ UNCHANGED <<stdout, outputMode>>
       ELSE /\ pc' = "init"
            /\ UNCHANGED ioVars
    /\ UNCHANGED <<envVars, client, mainVars, streamVars, batchVars>>

\* The banner performSingleSearchStream prints before its loop.
StreamBanner == <<"\n=== " \o config.query \o " ===\n">>

\* main: initializeClient, then the dispatch on the kind of run up to the
\* first engine call (single query, streaming or not) or up to the start of
\* processMultipleQueries.  A validated config without -query has -q queries.
InitClient ==
    /\ pc = "init"
    /\ IF ~clientOK
       THEN /\ client' = "failed"
            /\ handleError("failed to create client: " \o TransportError,
                           "Failed to initialize client")
            /\ UNCHANGED <<stdout, streamLog, outputMode>>
       ELSE /\ client' = "ready"
            /\ IF config.query # ""
               THEN IF config.stream
                    THEN /\ pc' = "stream"
                         /\ stdout' = stdout \o StreamBanner
                         /\ streamLog' = <<<<>>>>
                    ELSE /\ pc' = "search"
                         /\ UNCHANGED <<stdout, streamLog>>
               ELSE /\ pc' = "batch"
                    /\ UNCHANGED <<stdout, streamLog>>
            /\ UNCHANGED <<exitCode, stderr, outputMode>>
    /\ UNCHANGED <<envVars, mainVars, responseText, lastErr, batchVars>>

\* --------------------------------------------- main, single query
ModeOf(outputJSON) == IF outputJSON THEN "json" ELSE "text"

\* result.Output(config.outputJSON) and the exit that follows it.
SingleOutput(r, outputJSON) ==
    LET o == SearchResultOutput(r, outputJSON) IN
    /\ outputMode' = ModeOf(outputJSON)
    /\ stdout' = stdout \o o.out
    /\ stderr' = stderr \o o.errOut
    /\ Exit(IF o.err # "" THEN 1 ELSE 0)

\* if config.includeSummary && result.Success
MainWantsSummary(r) == config.includeSummary /\ r.Success

\* performSingleSearch called by main: one GenerateContent call returns r;
\* on leaving the loop, main's handling of (result, err) up to the next call.
MainSearchReturn(o) ==
    /\ pc = "search"
    /\ LET r == Response(o, SearchAnswer(config.query, Len(mlog) + 1))
           log == Append(mlog, r)
           ret == performSingleSearch(config.query, log)
       IN /\ mlog' = log
          /\ IF LoopExits(log)
             THEN /\ result' = ret.result
                  /\ IF ret.err # ""
                     THEN handleError(ret.err, "Search failed")
                          /\ UNCHANGED <<stdout, outputMode>>
                     ELSE IF MainWantsSummary(ret.result)
                     THEN pc' = "summary" /\ UNCHANGED ioVars
                     ELSE \E outputJSON \in BOOLEAN : SingleOutput(ret.result, outputJSON)
             ELSE /\ pc' = IF SleepsBeforeRetry(log) THEN "sleep" ELSE "search"
                  /\ UNCHANGED <<result, ioVars>>
    /\ UNCHANGED <<envVars, client, msumlog, msleeps, streamVars, batchVars>>

\* time.Sleep(3 * time.Second) of performSingleSearch, then the next attempt.
MainSleep ==
    /\ pc = "sleep"
    /\ pc' = "search"
    /\ msleeps' = msleeps + 1
    /\ UNCHANGED <<envVars, client, ioVars, result, mlog, msumlog, streamVars, batchVars>>

\* generateSummary called by main: one GenerateContent call returns r.
MainSummaryReturn(o) ==
    /\ pc = "summary"
    /\ LET r == Response(o, SummaryAnswer(result.Query, result.Response, Len(msumlog) + 1))
           log == Append(msumlog, r)
           res == [result EXCEPT !.Summary = SummaryField(log)]
       IN /\ msumlog' = log
          /\ IF LoopExits(log)
             THEN /\ result' = res
                  /\ \E outputJSON \in BOOLEAN : SingleOutput(res, outputJSON)
             ELSE /\ pc' = IF SleepsBeforeRetry(log) THEN "sumsleep" ELSE "summary"
                  /\ UNCHANGED <<result, ioVars>>
    /\ UNCHANGED <<envVars, client, mlog, msleeps, streamVars, batchVars>>

\* time.Sleep(3 * time.Second) of generateSummary.
MainSummarySleep ==
    /\ pc = "sumsleep"
    /\ pc' = "summary"
    /\ UNCHANGED <<envVars, client, ioVars, mainVars, streamVars, batchVars>>

\* --------------------------------------------- main, streaming
\* performSingleSearchStream from the end of one attempt (streamSuccess = ok,
\* lastErr = lastE) to its return and main's handling of it, or to the sleep.
StreamAttemptEnd(ok, lastE, out) ==
    IF StreamAttemptSucceeded(ok, responseText) \/ Len(streamLog) >= MaxAttempts
    THEN LET ret == performSingleSearchStream(config.query, responseText, lastE) IN
         /\ stdout' = out \o <<"\n" \o RuleLine \o "\n">>
         /\ result' = ret.result
         /\ IF ret.err # ""
            THEN handleError(ret.err, "Search failed")
            ELSE Exit(IF ~ret.result.Success THEN 1 ELSE 0) /\ UNCHANGED stderr
    ELSE /\ IF Len(streamLog) - 1 = 0
            THEN pc' = "stream_sleep" /\ stdout' = out \o <<"\n[Retrying...]\n">>
            ELSE pc' = "stream" /\ stdout' = out
         /\ UNCHANGED <<result, exitCode, stderr>>

LogItem(it) == [streamLog EXCEPT ![Len(streamLog)] = Append(@, it)]

\* The range loop consumes one item of the iterator: a chunk is printed and
\* appended to responseText before the loop asks for the next item.
StreamItem(it) ==
    /\ pc = "stream"
    /\ Len(Last(streamLog)) < MaxChunks
    /\ streamLog' = LogItem(it)
    /\ IF it.kind = "err"
       THEN /\ lastErr' = TransportError
            /\ UNCHANGED responseText
            /\ StreamAttemptEnd(FALSE, TransportError, stdout)
       ELSE /\ IF it.kind = "chunk"
               THEN /\ stdout' = Append(stdout, it.text)
                    /\ responseText' = AppendChunk(responseText, it.text)
               ELSE UNCHANGED <<stdout, responseText>>
            /\ UNCHANGED <<pc, exitCode, stderr, result, lastErr>>
    /\ UNCHANGED <<envVars, client, outputMode, mlog, msumlog, msleeps, batchVars>>

\* The iterator is exhausted without an error.
StreamEnd ==
    /\ pc = "stream"
    /\ StreamAttemptEnd(TRUE, lastErr, stdout)
    /\ UNCHANGED <<envVars, client, outputMode, mlog, msumlog, msleeps, streamVars,
                   batchVars>>

\* time.Sleep(3 * time.Second), then the next attempt resets responseText.
StreamSleep ==
    /\ pc = "stream_sleep"
    /\ pc' = "stream"
    /\ responseText' = ""
    /\ streamLog' = Append(streamLog, <<>>)
    /\ UNCHANGED <<envVars, client, ioVars, mainVars, lastErr, batchVars>>

\* --------------------------------------------- processMultipleQueries
\* Engine calls made with a context the deadline does not cancel.
CallOutcomes_NoCancel == Outcomes

\* What a GenerateContent call under the batch context can do: once the
\* context is done the call fails.
CallOutcomes == IF deadline THEN {"err"} ELSE Outcomes

\* Engine calls in flight (search and summary attempts together).
InFlight == Cardinality({i \in Workers : wpc[i] \in {"search", "summary"}})

\* A semaphore that never blocks.
SemHasRoom_Unbounded == TRUE

\* sem <- struct{}{} can proceed: the channel buffer has room.
SemHasRoom == sem < config.workers

\* Results stored in the reverse of the input order.
Slot_Reversed(index) == N + 1 - index

\* A closure that reads the loop variable instead of its own parameter: every
\* goroutine sees the index of the last iteration.
Slot_LoopVariable(index) == N

\* The slot goroutine (index, q) stores its result into.
Slot(index) == index

\* A wait that ends as soon as one goroutine is done.
WaitReturns_AnyDone == wg < N

\* wg.Wait() returns.
WaitReturns == wg = 0

\* context.WithTimeout, make(results), make(sem); with no query the loop
\* body never runs and wg.Wait() comes next.
StartBatch ==
    /\ pc = "batch"
    /\ pc' = IF N = 0 THEN "wait" ELSE "spawn"
    /\ results' = [i \in Workers |-> ZeroResult]
    /\ UNCHANGED <<envVars, client, ioVars, mainVars, streamVars, deadline, pending, spawned,
                   sem, wg, writes, wpc, wlog, wsumlog, wsleeps, multiResult>>

\* One iteration of the loop: wg.Add(1); go func(i, query).
Spawn ==
    /\ pc = "spawn"
    /\ spawned < N
    /\ spawned' = spawned + 1
    /\ wg' = wg + 1
    /\ wpc' = [wpc EXCEPT ![spawned + 1] = "acquire"]
    /\ pc' = IF spawned + 1 = N THEN "wait" ELSE "spawn"
    /\ UNCHANGED <<envVars, client, ioVars, mainVars, streamVars, deadline, pending, sem,
                   results, writes, wlog, wsumlog, wsleeps, multiResult>>

\* Positions of a goroutine whose performSingleSearch has not returned yet.
BeforeOutcome == {"idle", "acquire", "search", "sleep"}

\* The timeout of the batch context elapses.
DeadlineFires ==
    /\ pc \in {"spawn", "wait"}
    /\ ~deadline
    /\ deadline' = TRUE
    /\ pending' = {i \in Workers : wpc[i] \in BeforeOutcome}
    /\ UNCHANGED <<envVars, client, pc, ioVars, mainVars, streamVars, spawned, sem,
                   wg, results, writes, wpc, wlog, wsumlog, wsleeps, multiResult>>

\* sem <- struct{}{}, then processQuery up to its first engine call.
Acquire(i) ==
    /\ wpc[i] = "acquire"
    /\ SemHasRoom
    /\ sem' = sem + 1
    /\ wpc' = [wpc EXCEPT ![i] = "search"]
    /\ UNCHANGED <<envVars, client, pc, ioVars, mainVars, streamVars, deadline, pending,
                   spawned, wg, results, writes, wlog, wsumlog, wsleeps, multiResult>>

\* A goroutine without the deferred release of its slot.
Finish_KeepsSlot(i, res) ==
    /\ results' = [results EXCEPT ![Slot(i)] = res]
    /\ writes' = [writes EXCEPT ![Slot(i)] = @ + 1]
    /\ sem' = sem
    /\ wg' = wg - 1
    /\ wpc' = [wpc EXCEPT ![i] = "done"]

\* The end of goroutine i once processQuery returned res: results[index] =
\* result, then the deferred <-sem and wg.Done().
Finish(i, res) ==
    /\ results' = [results EXCEPT ![Slot(i)] = res]
    /\ writes' = [writes EXCEPT ![Slot(i)] = @ + 1]
    /\ sem' = sem - 1
    /\ wg' = wg - 1
    /\ wpc' = [wpc EXCEPT ![i] = "done"]

\* processQuery's result before the summary, from the search attempts so far.
SearchedResult(i, log) ==
    processQuerySearch(config.queries[i], performSingleSearch(config.queries[i], log))

\* A GenerateContent call of performSingleSearch returns r in goroutine i;
\* on leaving the loop, processQuery up to the summary call or to the store.
SearchReturn(i, o) ==
    /\ wpc[i] = "search"
    /\ o \in CallOutcomes
    /\ LET r == Response(o, SearchAnswer(config.queries[i], Len(wlog[i]) + 1))
           log == Append(wlog[i], r)
           res == SearchedResult(i, log)
       IN /\ wlog' = [wlog EXCEPT ![i] = log]
          /\ IF LoopExits(log)
             THEN IF WantsSummary(res, config.includeSummary)
                  THEN /\ wpc' = [wpc EXCEPT ![i] = "summary"]
                       /\ UNCHANGED <<results, writes, sem, wg>>
                  ELSE Finish(i, res)
             ELSE /\ wpc' = [wpc EXCEPT ![i] =
                                IF SleepsBeforeRetry(log) THEN "sleep" ELSE "search"]
                  /\ UNCHANGED <<results, writes, sem, wg>>
    /\ UNCHANGED <<envVars, client, pc, ioVars, mainVars, streamVars, deadline, pending,
                   spawned, wsumlog, wsleeps, multiResult>>

\* time.Sleep(3 * time.Second) of performSingleSearch in goroutine i.
Sleep(i) ==
    /\ wpc[i] = "sleep"
    /\ wpc' = [wpc EXCEPT ![i] = "search"]
    /\ wsleeps' = [wsleeps EXCEPT ![i] = @ + 1]
    /\ UNCHANGED <<envVars, client, pc, ioVars, mainVars, streamVars, deadline, pending,
                   spawned, sem, wg, results, writes, wlog, wsumlog, multiResult>>

\* A GenerateContent call of generateSummary returns r in goroutine i.
SummaryReturn(i, o) ==
    /\ wpc[i] = "summary"
    /\ o \in CallOutcomes
    /\ LET searched == SearchedResult(i, wlog[i])
           r == Response(o, SummaryAnswer(config.queries[i], searched.Response,
                                          Len(wsumlog[i]) + 1))
           log == Append(wsumlog[i], r)
           res == [searched EXCEPT !.Summary = SummaryField(log)]
       IN /\ wsumlog' = [wsumlog EXCEPT ![i] = log]
          /\ IF LoopExits(log)
             THEN Finish(i, res)
             ELSE /\ wpc' = [wpc EXCEPT ![i] =
                                IF SleepsBeforeRetry(log) THEN "sumsleep" ELSE "summary"]
                  /\ UNCHANGED <<results, writes, sem, wg>>
    /\ UNCHANGED <<envVars, client, pc, ioVars, mainVars, streamVars, deadline, pending,
                   spawned, wlog, wsleeps, multiResult>>

\* time.Sleep(3 * time.Second) of generateSummary in goroutine i.
SummarySleep(i) ==
    /\ wpc[i] = "sumsleep"
    /\ wpc' = [wpc EXCEPT ![i] = "summary"]
    /\ UNCHANGED <<envVars, client, pc, ioVars, mainVars, streamVars, deadline, pending,
                   spawned, sem, wg, results, writes, wlog, wsumlog, wsleeps,
                   multiResult>>

\* wg.Wait() returns; the success count and the MultiSearchResult.
Collect ==
    /\ pc = "wait"
    /\ WaitReturns
    /\ multiResult' = BuildMultiResult(results, N)
    /\ pc' = "output"
    /\ UNCHANGED <<envVars, client, ioVars, mainVars, streamVars, deadline, pending, spawned,
                   sem, wg, results, writes, wpc, wlog, wsumlog, wsleeps>>

\* main without the exit on a failed batch.
MultiExitCode_AlwaysZero(m) == 0

\* if !multiResult.Success { os.Exit(1) }
MultiExitCode(m) == IF ~m.Success THEN 1 ELSE 0

\* main: multiResult.Output(...) and the exit status.
MultiOutput ==
    /\ pc = "output"
    /\ \E outputJSON \in BOOLEAN :
          /\ outputMode' = ModeOf(outputJSON)
          /\ stdout' = stdout \o MultiSearchResultOutput(multiResult, outputJSON,
                                                         config.stream, config.includeSummary)
    /\ Exit(MultiExitCode(multiResult))
    /\ UNCHANGED <<envVars, client, stderr, mainVars, streamVars, batchVars>>

\* ------------------------------------------------------------ specification
WorkerStep(i) ==
    \/ Acquire(i)
    \/ \E o \in Outcomes : SearchReturn(i, o)
    \/ Sleep(i)
    \/ \E o \in Outcomes : SummaryReturn(i, o)
    \/ SummarySleep(i)

MainStep ==
    \/ Validate
    \/ InitClient
    \/ \E o \in Outcomes : MainSearchReturn(o)
    \/ MainSleep
    \/ \E o \in Outcomes : MainSummaryReturn(o)
    \/ MainSummarySleep
    \/ \E it \in StreamItems : StreamItem(it)
    \/ StreamEnd
    \/ StreamSleep
    \/ StartBatch
    \/ Spawn
    \/ Collect
    \/ MultiOutput

Next ==
    \/ MainStep
    \/ \E i \in Workers : WorkerStep(i)
    \/ DeadlineFires

Spec == Init /\ [][Next]_vars

\* Every goroutine that can take a step eventually takes one; the deadline
\* need not fire.
FairSpec ==
    /\ Spec
    /\ WF_vars(MainStep)
    /\ \A i \in 1..MaxQueries : WF_vars(i \in Workers /\ WorkerStep(i))

\* --------------------------------------------- processMultipleQueries alone
\* The worker limits processMultipleQueries is called with: one slot, where
\* every further query waits, and two slots.  A limit of N or more never
\* makes a goroutine wait, so with up to two queries 2 behaves as 2..5 do.
BatchWorkerLimits == {MinWorkers, MinWorkers + 1}

\* processMultipleQueries is called with any list of queries (the empty list
\* too, which main never passes) and an accepted worker limit.
BatchInit ==
    /\ config \in [query : {""}, queries : QueryLists, stream : {FALSE},
                    includeSummary : BOOLEAN, workers : BatchWorkerLimits]
    /\ outputMode = "unread"
    /\ clientOK = TRUE
    /\ client = "ready"
    /\ pc = "batch"
    /\ exitCode = -1
    /\ stdout = <<>>
    /\ stderr = <<>>
    /\ result = ZeroResult
    /\ mlog = <<>>
    /\ msumlog = <<>>
    /\ msleeps = 0
    /\ streamLog = <<>>
    /\ responseText = ""
    /\ lastErr = ""
    /\ deadline = FALSE
    /\ pending = {}
    /\ spawned = 0
    /\ sem = 0
    /\ wg = 0
    /\ results = <<>>
    /\ writes = [i \in Workers |-> 0]
    /\ wpc = [i \in Workers |-> "idle"]
    /\ wlog = [i \in Workers |-> <<>>]
    /\ wsumlog = [i \in Workers |-> <<>>]
    /\ wsleeps = [i \in Workers |-> 0]
    /\ multiResult = ZeroMulti

\* The steps of the goroutine that called processMultipleQueries.
BatchMainStep == StartBatch \/ Spawn \/ Collect

BatchNext ==
    \/ BatchMainStep
    \/ \E i \in Workers : WorkerStep(i)
    \/ DeadlineFires

\* Every engine call returns and every delay ends (a goroutine that can step
\* does step); the deadline need not fire.
BatchSpec ==
    /\ BatchInit
    /\ [][BatchNext]_vars
    /\ WF_vars(BatchMainStep)
    /\ \A i \in 1..MaxQueries : WF_vars(i \in Workers /\ WorkerStep(i))

\* --------------------------------------------- the batch renderer alone
\* SearchResult values a batch can hold for query q, as the renderer's
\* input: the three outcomes of a search and, for a success, no summary, a
\* summary text or the sentinel.
RenderOutcomes(q) ==
    LET searched(o) ==
            processQuerySearch(q, performSingleSearch(q, <<Response(o, SearchAnswer(q, 1))>>))
        ok == searched("text")
    IN {searched(o) : o \in Outcomes}
         \cup {[ok EXCEPT !.Summary = t] :
                  t \in {SummaryAnswer(q, ok.Response, 1), SummarySentinel}}

\* The Results slices given to the renderer: one outcome per query.
RenderBatches(queries) ==
    {rs \in [1..Len(queries) -> UNION {RenderOutcomes(queries[i]) : i \in 1..Len(queries)}] :
        \A i \in 1..Len(queries) : rs[i] \in RenderOutcomes(queries[i])}

\* (m *MultiSearchResult) Output called on any batch with any flags: main is
\* at the call, with a MultiSearchResult of the shape processMultipleQueries
\* builds and every combination of isStream and includeSummary.
RenderInit ==
    /\ config \in [query : {""}, queries : QueryLists, stream : BOOLEAN,
                    includeSummary : BOOLEAN, workers : {MinWorkers}]
    /\ outputMode = "unread"
    /\ clientOK = TRUE
    /\ client = "ready"
    /\ pc = "output"
    /\ exitCode = -1
    /\ stdout = <<>>
    /\ stderr = <<>>
    /\ result = ZeroResult
    /\ mlog = <<>>
    /\ msumlog = <<>>
    /\ msleeps = 0
    /\ streamLog = <<>>
    /\ responseText = ""
    /\ lastErr = ""
    /\ deadline = FALSE
    /\ pending = {}
    /\ spawned = N
    /\ sem = 0
    /\ wg = 0
    /\ results \in RenderBatches(config.queries)
    /\ writes = [i \in Workers |-> 1]
    /\ wpc = [i \in Workers |-> "done"]
    /\ wlog = [i \in Workers |-> <<>>]
    /\ wsumlog = [i \in Workers |-> <<>>]
    /\ wsleeps = [i \in Workers |-> 0]
    /\ multiResult = BuildMultiResult(results, N)

RenderNext == MultiOutput

RenderSpec == RenderInit /\ [][RenderNext]_vars

\* ------------------------------------------------------------ properties
\* processMultipleQueries has returned its MultiSearchResult to main.
BatchReturned == pc = "output" \/ (pc = "exited" /\ spawned > 0)
\* processMultipleQueries is running (from make(results) to wg.Wait()).
BatchRunning == pc \in {"spawn", "wait"}

Done(i) == wpc[i] = "done"

\* C1: the batch has exactly N outcomes and outcome i carries query i, in
\* every interleaving: while the batch runs the slice has N slots and every
\* goroutine that has finished, in whatever order, left its query's outcome
\* in the slot of its input index; the returned batch is that slice.
C1_IndexAligned ==
    /\ (BatchRunning \/ BatchReturned) =>
          /\ Len(results) = N
          /\ \A i \in Workers : Done(i) => results[i].Query = config.queries[i]
    /\ BatchReturned =>
          /\ Len(multiResult.Results) = N
          /\ \A i \in Workers : multiResult.Results[i].Query = config.queries[i]

\* A later query has completed before an earlier one and sits in its own slot.
C1_Witness ==
    /\ BatchRunning
    /\ \E i, j \in Workers :
          /\ i < j
          /\ Done(j) /\ ~Done(i)
          /\ results[j].Query = config.queries[j]
          /\ results[i] = ZeroResult

\* Positions of a goroutine that holds a semaphore slot.
HoldsSlot == {"search", "sleep", "summary", "sumsleep"}

\* C2: engine calls in flight never exceed the worker limit; only a goroutine
\* that holds a slot has a call in flight, and at most workerLimit hold one.
C2_BoundedConcurrency ==
    /\ InFlight <= config.workers
    /\ InFlight <= sem
    /\ sem = Cardinality({i \in Workers : wpc[i] \in HoldsSlot})
    /\ sem <= config.workers

\* Every slot is taken by a call in flight and a further query waits for one.
C2_Witness ==
    /\ BatchRunning
    /\ InFlight = config.workers
    /\ \E i \in Workers : wpc[i] = "acquire"

\* Attempts of one performSingleSearch: responses received plus a call in flight.
Started(log, inflight) == Len(log) + (IF inflight THEN 1 ELSE 0)

\* What C3 asks of one run of performSingleSearch: log are the responses so
\* far, inflight says a call is pending, slept counts the delays, returned
\* says the executor has returned outcome.
RetryPolicy(log, inflight, slept, returned, outcome) ==
    /\ Started(log, inflight) <= 2
    /\ Started(log, inflight) = 2 =>
          /\ log[1].err # "" \/ log[1].text = ""
          /\ slept = 1
    /\ Started(log, inflight) < 2 => slept = 0
    /\ (returned /\ Len(log) = 1) => (log[1].err = "" /\ log[1].text # "")
    /\ (returned /\ Len(log) = 2 /\ log[1] = TextResponse("")
          /\ log[2].err = "" /\ log[2].text # "") =>
             (outcome.Success /\ outcome.Response = log[2].text)

\* main's performSingleSearch has returned.
MainSearchReturned == mlog # <<>> /\ pc \in {"summary", "sumsleep", "exited"}

\* C3: performSingleSearch makes at most 2 attempts, the second exactly when
\* the first gave an error or an empty text and after one retry delay; empty
\* text then a valid text gives success with the second attempt's text.
C3_RetryPolicy ==
    /\ RetryPolicy(mlog, pc = "search", msleeps, MainSearchReturned, result)
    /\ \A i \in Workers :
          RetryPolicy(wlog[i], wpc[i] = "search", wsleeps[i], Done(i), results[i])

\* Empty text on attempt 1, a text on attempt 2: success with the second text.
C3_Witness ==
    /\ pc = "exited"
    /\ Len(mlog) = 2
    /\ mlog[1] = TextResponse("")
    /\ mlog[2] = TextResponse(SearchAnswer(config.query, 2))
    /\ msleeps = 1
    /\ result.Success
    /\ result.Response = SearchAnswer(config.query, 2)

\* The QueryOutcome invariant of the data model.
WellFormed(r) ==
    \/ r.Success /\ r.Response # "" /\ r.Error = ""
    \/ ~r.Success /\ r.Error # "" /\ r.Response = ""

\* main's streaming executor has returned.
StreamReturned == streamLog # <<>> /\ pc = "exited"

\* C4: every outcome an executor path produced is either a success with a
\* text and no failure reason, or a failure with a reason and no text.
C4_OutcomeInvariant ==
    /\ (MainSearchReturned \/ StreamReturned) => WellFormed(result)
    /\ \A i \in Workers : Done(i) => WellFormed(results[i])
    /\ BatchReturned => \A i \in Workers : WellFormed(multiResult.Results[i])

\* A streaming outcome after a stream error, with text kept from the last attempt.
C4_Witness ==
    /\ StreamReturned
    /\ lastErr # ""
    /\ result.Success
    /\ result.Response # ""

\* C5: allSucceeded iff every outcome succeeded; failureSummary is present
\* iff not allSucceeded and then states k/N, k the number of successes.
C5_BatchSummary ==
    BatchReturned =>
        LET m == multiResult
            k == Cardinality({i \in 1..Len(m.Results) : m.Results[i].Success})
        IN /\ m.Success <=> \A i \in 1..Len(m.Results) : m.Results[i].Success
           /\ (m.Error # "") <=> ~m.Success
           /\ ~m.Success => /\ Contains(m.Error, " " \o ToString(k) \o "/" \o ToString(N) \o " ")
                            /\ k < N

\* A batch of two where exactly one query succeeded.
C5_Witness ==
    /\ BatchReturned
    /\ N = 2
    /\ Cardinality({i \in Workers : multiResult.Results[i].Success}) = 1
    /\ multiResult.Error = "Completed 1/2 queries successfully"

\* Both attempts of a summary failed (error or empty text).
SummaryFailed(sumlog) ==
    /\ Len(sumlog) = 2
    /\ \A k \in 1..2 : sumlog[k].err # "" \/ sumlog[k].text = ""

\* The last attempt of a search gave a text.
SearchSucceeded(log) == log # <<>> /\ Last(log).err = "" /\ Last(log).text # ""

\* What C6 asks of an outcome whose summary failed.
KeepsSuccess(outcome, log) ==
    /\ outcome.Success
    /\ outcome.Response = Last(log).text
    /\ outcome.Error = ""
    /\ outcome.Summary = SummarySentinel

\* C6: a failed summary of a successful search leaves success=true and the
\* answer text and sets the summary to the sentinel, in a batch and in main
\* (where the process still exits with status 0).
C6_SummaryFailureNotFatal ==
    /\ \A i \in Workers :
          (Done(i) /\ config.includeSummary /\ SearchSucceeded(wlog[i])
             /\ SummaryFailed(wsumlog[i])) => KeepsSuccess(results[i], wlog[i])
    /\ (pc = "exited" /\ config.includeSummary /\ SearchSucceeded(mlog)
          /\ SummaryFailed(msumlog)) => (KeepsSuccess(result, mlog) /\ exitCode = 0)

\* A batch query whose search succeeded and whose summary failed by an error
\* and then an empty text.
C6_Witness ==
    \E i \in Workers :
        /\ Done(i)
        /\ SearchSucceeded(wlog[i])
        /\ wsumlog[i] = <<ErrResponse(TransportError), TextResponse("")>>
        /\ results[i].Success
        /\ results[i].Summary = SummarySentinel

\* A step of the program (not of the clock).
ProgramStep == MainStep \/ \E i \in Workers : WorkerStep(i)

\* C7: every query without a search outcome when the deadline fired ends as
\* a recorded failure in its slot, the batch then has allSucceeded=false, and
\* the batch is never stuck after the deadline: a goroutine or main can step
\* until processMultipleQueries has returned.
C7_DeadlineFailures ==
    /\ \A i \in pending :
          Done(i) => (~results[i].Success /\ results[i].Error # "" /\ writes[i] = 1)
    /\ (BatchReturned /\ pending # {}) =>
          /\ ~multiResult.Success
          /\ multiResult.Error # ""
          /\ \A i \in pending :
                /\ Done(i)
                /\ ~multiResult.Results[i].Success
                /\ multiResult.Results[i].Query = config.queries[i]
                /\ multiResult.Results[i].Error # ""
    /\ (BatchRunning /\ deadline) => ENABLED ProgramStep

\* With one worker slot two queries were without outcome at the deadline (so
\* one of them was waiting for the slot); the batch returned with both failed.
C7_Witness ==
    /\ BatchReturned
    /\ config.workers = 1
    /\ Cardinality(pending) = 2
    /\ \A i \in pending : ~multiResult.Results[i].Success
    /\ ~multiResult.Success

\* Both attempts returned an empty text without error.
BothEmpty(log) == log = <<TextResponse(""), TextResponse("")>>

\* C8: two empty answers give success=false with a failureReason containing
\* "Empty response", from the single-query executor and in a batch's
\* outcomes; the streaming executor gives "Empty stream response".
C8_EmptyResponseReason ==
    /\ (pc = "exited" /\ BothEmpty(mlog)) =>
          (~result.Success /\ Contains(result.Error, "Empty response"))
    /\ \A i \in Workers :
          (Done(i) /\ BothEmpty(wlog[i])) =>
             (~results[i].Success /\ Contains(results[i].Error, "Empty response"))
    /\ (StreamReturned /\ lastErr = "" /\ responseText = "" /\ Len(streamLog) = 2) =>
          (~result.Success /\ Contains(result.Error, "Empty stream response"))

\* C9: a query that exhausted its retries fails in its own slot only: every
\* query is executed, each outcome follows from the query's own last engine
\* response, a failed outcome has used both attempts, and the batch is
\* returned and rendered without error, with allSucceeded=false if any failed.
C9_FailureIsolation ==
    /\ \A i \in Workers :
          Done(i) =>
             /\ results[i].Success <=> SearchSucceeded(wlog[i])
             /\ results[i].Response = (IF SearchSucceeded(wlog[i]) THEN Last(wlog[i]).text ELSE "")
             /\ ~results[i].Success => Len(wlog[i]) = 2
    /\ BatchReturned =>
          /\ \A i \in Workers :
                Done(i) /\ writes[i] = 1 /\ wlog[i] # <<>> /\ multiResult.Results[i] = results[i]
          /\ (\E i \in Workers : ~results[i].Success) => ~multiResult.Success
          /\ stderr = <<>>
          /\ pc = "exited" => stdout # <<>>

\* The first query exhausted its retries and the second succeeded.
C9_Witness ==
    /\ pc = "exited"
    /\ N = 2
    /\ Len(wlog[1]) = 2 /\ ~results[1].Success
    /\ results[2].Success
    /\ results[2].Response = SearchAnswer(config.queries[2], 1)
    /\ ~multiResult.Success

\* The accepted command lines, as the CLI surface describes them.
ValidInput(c) ==
    /\ (c.query # "") # (c.queries # <<>>)
    /\ c.workers \in 1..5
    /\ ~(c.stream /\ c.queries # <<>>)

\* Every query of the run produced a successful outcome.
AllQueriesSucceeded ==
    IF config.query # "" THEN result.Success
    ELSE Len(results) = N /\ \A i \in Workers : results[i].Success

\* C10: the exit status is non-zero when the configuration is invalid, the
\* client cannot be initialized or a query failed (single or multi, any
\* output mode), and zero when all queries succeeded under a valid
\* configuration.
C10_ExitStatus ==
    pc = "exited" =>
        /\ exitCode \in {0, 1}
        /\ exitCode = 0 <=> (ValidInput(config) /\ clientOK /\ AllQueriesSucceeded)

\* A multi-query run in JSON mode with one failed query exits with status 1.
C10_Witness ==
    /\ pc = "exited"
    /\ outputMode = "json"
    /\ Len(results) = 2
    /\ results[1].Success /\ ~results[2].Success
    /\ exitCode = 1

\* The buffer one streaming attempt accumulated from the items it consumed.
RECURSIVE Accumulated(_)
Accumulated(items) ==
    IF items = <<>> THEN ""
    ELSE (IF items[1].kind = "chunk" THEN items[1].text ELSE "")
           \o Accumulated(Tail(items))

\* The attempt was aborted by a stream error.
Aborted(items) == \E k \in 1..Len(items) : items[k].kind = "err"

\* The attempt met the success criterion: no error and a non-empty text.
CleanAttempt(items) == ~Aborted(items) /\ Accumulated(items) # ""

\* C11: a streaming outcome with success=true has the full buffer of an
\* attempt that ended without a stream error and with a non-empty text; the
\* attempt that supplied the text was not aborted by an error.
C11_StreamSuccessFromCleanAttempt ==
    (StreamReturned /\ result.Success) =>
        /\ \E a \in 1..Len(streamLog) :
              CleanAttempt(streamLog[a]) /\ result.Response = Accumulated(streamLog[a])
        /\ ~Aborted(Last(streamLog))

\* An engine call was made or is in flight (search, summary or stream).
EngineCalled ==
    \/ pc \in {"search", "sleep", "summary", "sumsleep", "stream", "stream_sleep"}
    \/ mlog # <<>> \/ msumlog # <<>> \/ streamLog # <<>>
    \/ \E i \in Workers : wpc[i] # "idle" \/ wlog[i] # <<>> \/ wsumlog[i] # <<>>

\* The streaming executor has been entered.
StreamEntered == pc \in {"stream", "stream_sleep"} \/ streamLog # <<>>

\* C12: with a configuration error (no query, both -query and -q, workers
\* outside 1..5, -stream with -q queries) the process ends with a non-zero
\* status and an error line, without client initialization and without any
\* engine call; the streaming executor runs only for a single top-level
\* query, never in a batch and never next to another query's executor.
C12_ConfigErrorsFirst ==
    /\ ~ValidInput(config) =>
          /\ pc \in {"validate", "exited"}
          /\ client = "none"
          /\ ~EngineCalled
          /\ spawned = 0 /\ results = <<>>
          /\ stdout = <<>>
          /\ pc = "exited" => (exitCode = 1 /\ stderr # <<>>)
    /\ StreamEntered =>
          /\ ValidInput(config)
          /\ config.query # "" /\ N = 0
          /\ ~(BatchRunning \/ BatchReturned) /\ pc # "batch"
          /\ spawned = 0 /\ results = <<>>
          /\ mlog = <<>> /\ msumlog = <<>>
    /\ (pc = "batch" \/ BatchRunning \/ BatchReturned) => (~config.stream /\ ~StreamEntered)

\* -stream given with two -q queries and an accepted worker limit: the
\* process has ended with status 1 before the client was initialized.
C12_Witness ==
    /\ pc = "exited"
    /\ config.stream /\ config.query = "" /\ N = 2
    /\ config.workers \in MinWorkers..MaxWorkers
    /\ client = "none"
    /\ exitCode = 1
    /\ stderr # <<>>

\* The chunk texts of one attempt in arrival order.
RECURSIVE ChunkTexts(_)
ChunkTexts(items) ==
    IF items = <<>> THEN <<>>
    ELSE (IF items[1].kind = "chunk" THEN <<items[1].text>> ELSE <<>>)
           \o ChunkTexts(Tail(items))

\* Concatenation of a sequence of strings.
RECURSIVE Concat(_)
Concat(ws) == IF ws = <<>> THEN "" ELSE ws[1] \o Concat(Tail(ws))

\* The writes to stdout the consumed items account for: the banner, each
\* attempt's chunks in arrival order, the notice between two attempts.
LiveWrites ==
    StreamBanner \o ChunkTexts(streamLog[1])
      \o (IF Len(streamLog) = 2 \/ pc = "stream_sleep" THEN <<"\n[Retrying...]\n">> ELSE <<>>)
      \o (IF Len(streamLog) = 2 THEN ChunkTexts(streamLog[2]) ELSE <<>>)

\* C13: every consumed chunk has been written to stdout and appended to the
\* buffer before the next item is consumed, in arrival order: while an
\* attempt runs, stdout holds exactly the chunks consumed so far and the
\* buffer is their concatenation; when the first attempt succeeds the live
\* output between banner and rule concatenates to the outcome's answerText.
C13_LiveOutputIsAnswer ==
    /\ pc \in {"stream", "stream_sleep"} =>
          /\ stdout = LiveWrites
          /\ pc = "stream" => responseText = Concat(ChunkTexts(Last(streamLog)))
    /\ StreamReturned =>
          /\ stdout = LiveWrites \o <<"\n" \o RuleLine \o "\n">>
          /\ Len(streamLog) = 1 =>
                /\ result.Success
                /\ result.Response = Concat(SubSeq(stdout, 2, Len(stdout) - 1))
                /\ result.Response = Concat(ChunkTexts(streamLog[1]))

\* The stream yields "Hel" and "lo" and ends: live output and answer "Hello".
C13_Witness ==
    /\ StreamReturned
    /\ streamLog = <<<<[kind |-> "chunk", text |-> "Hel"], [kind |-> "chunk", text |-> "lo"]>>>>
    /\ stdout = StreamBanner \o <<"Hel", "lo", "\n" \o RuleLine \o "\n">>
    /\ result.Success
    /\ result.Response = "Hello"
    /\ exitCode = 0

\* The streaming executor went on to a second attempt (the notice and the
\* delay come first).
RetryTriggered == pc = "stream_sleep" \/ Len(streamLog) = 2
\* The first streaming attempt is over.
FirstAttemptOver == RetryTriggered \/ StreamReturned

\* C14 as stated: the second attempt is triggered exactly when the first
\* attempt errored with zero accumulated text or ended with zero
\* accumulated text.
C14_RetryOnlyWithoutText ==
    FirstAttemptOver =>
        (RetryTriggered <=>
            \/ Aborted(streamLog[1]) /\ Accumulated(streamLog[1]) = ""
            \/ ~Aborted(streamLog[1]) /\ Accumulated(streamLog[1]) = "")

\* C14 amended: the second attempt is triggered exactly when the first
\* attempt errored before completion, whatever text it had accumulated, or
\* ended with zero accumulated text.
C14_RetryTrigger ==
    FirstAttemptOver =>
        (RetryTriggered <=>
            \/ Aborted(streamLog[1])
            \/ ~Aborted(streamLog[1]) /\ Accumulated(streamLog[1]) = "")

\* The first attempt read "Hel" and then failed; the second attempt runs.
C14_Witness ==
    /\ pc = "stream"
    /\ Len(streamLog) = 2
    /\ streamLog[1] = <<[kind |-> "chunk", text |-> "Hel"], [kind |-> "err", text |-> ""]>>
    /\ responseText = ""

\* Positions of a goroutine inside a fixed retry delay.
Delays == {"sleep", "sumsleep"}

\* C15: once the deadline has fired no goroutine begins a retry delay and
\* none goes from a delay to a further engine attempt.  The retry delay is
\* the only step that takes time once the context is done (a call under a
\* done context fails at once), so the time from the deadline to the return
\* of processMultipleQueries is the delays waited after it: with none begun,
\* it cannot grow with the number of queued queries.
C15_PromptCancellation ==
    [][deadline =>
          \A i \in Workers :
              /\ wpc'[i] \in Delays => wpc[i] = wpc'[i]
              /\ wpc[i] \in Delays => wpc'[i] \notin {"search", "summary"}]_vars

\* C16: slot i of results is stored into exactly once, by the goroutine of
\* index i when it finishes (no store before, none by another goroutine, no
\* second one), and nothing reads the slice (success count, allSucceeded,
\* rendering) while a goroutine is still running: the reads come after
\* wg.Wait() returned, when every goroutine has stored and signalled.
C16_SlotsWriteOnce ==
    /\ \A i \in Workers :
          /\ writes[i] = (IF Done(i) THEN 1 ELSE 0)
          /\ (Len(results) = N /\ ~Done(i)) => results[i] = ZeroResult
          /\ Done(i) => results[i].Query = config.queries[i]
    /\ (\E i \in Workers : ~Done(i)) =>
          /\ multiResult = ZeroMulti
          /\ ~BatchReturned
          /\ stdout = <<>>
    /\ BatchReturned =>
          /\ wg = 0 /\ sem = 0
          /\ \A i \in Workers : Done(i)
          /\ multiResult.Results = results

\* Two goroutines ran side by side: the second has stored its outcome, the
\* first is still summarizing, and nothing has been read yet.
C16_Witness ==
    /\ pc = "wait"
    /\ N = 2
    /\ wpc[1] = "summary" /\ Done(2)
    /\ writes[1] = 0 /\ writes[2] = 1
    /\ results[1] = ZeroResult /\ results[2].Query = config.queries[2]
    /\ multiResult = ZeroMulti

\* An attempt of performSingleSearch failed: an error or an empty text.
FailedAttempt(r) == r.err # "" \/ r.text = ""

\* C17: when both attempts failed the executor's outcome is a failure whose
\* reason names the failure mode of the final attempt: "Search failed"
\* (stream: "Stream search failed") iff the final attempt gave a transport
\* error, "Empty response" (stream: "Empty stream response") iff it ended
\* without error and with an empty text, whatever the first attempt's
\* failure mode was, in the streaming executor as in the other.
C17_ReasonOfFinalAttempt ==
    /\ (pc = "exited" /\ Len(mlog) = 2 /\ FailedAttempt(mlog[1]) /\ FailedAttempt(mlog[2])) =>
          /\ ~result.Success
          /\ result.Error = "Search failed" <=> mlog[2].err # ""
          /\ result.Error = "Empty response" <=> (mlog[2].err = "" /\ mlog[2].text = "")
    /\ (StreamReturned /\ Len(streamLog) = 2
          /\ ~CleanAttempt(streamLog[1]) /\ ~CleanAttempt(streamLog[2])) =>
          /\ ~result.Success
          /\ result.Error = "Stream search failed" <=> Aborted(streamLog[2])
          /\ result.Error = "Empty stream response" <=>
                (~Aborted(streamLog[2]) /\ Accumulated(streamLog[2]) = "")

\* strings.HasPrefix
StartsWith(t, prefix) == Len(t) >= Len(prefix) /\ SubSeq(t, 1, Len(prefix)) = prefix

\* Writes of one detailed section: a title when the batch has several
\* queries, the body, an empty line.
SectionLen(n) == IF n > 1 THEN 3 ELSE 2

\* out holds the detailed section of outcome r right after position base.
IsSection(out, base, r, n) ==
    /\ n > 1 => out[base + 1] = "=== " \o r.Query \o " ===\n"
    /\ out[base + SectionLen(n) - 1] =
          (IF r.Success THEN r.Response \o "\n" ELSE "Status: FAILED - " \o r.Error \o "\n")
    /\ out[base + SectionLen(n)] = "\n"

\* "k/n", k the number of outcomes with success=true.
Tally(rs) ==
    ToString(Cardinality({i \in 1..Len(rs) : rs[i].Success})) \o "/" \o ToString(Len(rs))

\* The text of the summary line after its mark.
SummaryLineRest(r) ==
    " " \o r.Query \o ": "
      \o (IF ~r.Success THEN r.Error
          ELSE IF r.Summary = "" THEN NoSummaryText ELSE r.Summary) \o "\n"

\* C18: what the batch renderer has written in text mode is fixed by the
\* batch and the two flags.  isStream: the completion banner with k/n and
\* nothing else.  Otherwise with includeSummary: the heading and the overview
\* line with k/n, one summary line per query in input order with the success
\* mark or the failure mark, an empty line, the heading of the details and
\* one detailed section per query in input order.  Otherwise: the detailed
\* sections only.  k is the number of outcomes with success=true.
C18_BatchRendererShape ==
    (config.query = "" /\ pc = "exited" /\ outputMode = "text") =>
        LET rs == multiResult.Results
            n == Len(rs)
            out == stdout
        IN IF config.stream
           THEN out = <<"\n" \o FlagMark \o " COMPLETED: " \o Tally(rs) \o " queries\n">>
           ELSE IF config.includeSummary
           THEN /\ Len(out) = 2 + n + 2 + n * SectionLen(n)
                /\ out[1] = "## SEARCH RESULTS\n"
                /\ StartsWith(out[2], Tally(rs) \o " queries completed successfully")
                /\ \A i \in 1..n :
                      /\ out[2 + i] = (IF rs[i].Success THEN CheckMark ELSE CrossMark)
                                        \o SummaryLineRest(rs[i])
                      /\ IsSection(out, n + 4 + (i - 1) * SectionLen(n), rs[i], n)
                /\ out[n + 3] = "\n"
                /\ out[n + 4] = "## DETAILED RESPONSES\n\n"
           ELSE /\ Len(out) = n * SectionLen(n)
                /\ \A i \in 1..n : IsSection(out, (i - 1) * SectionLen(n), rs[i], n)
                /\ \A j \in 1..Len(out) :
                      /\ ~Contains(out[j], "queries completed successfully")
                      /\ ~StartsWith(out[j], CheckMark) /\ ~StartsWith(out[j], CrossMark)

\* A batch of two, the first succeeded and the second failed, rendered as
\* text with the summaries: a success mark, then a failure mark.
C18_Witness ==
    /\ config.query = "" /\ pc = "exited" /\ outputMode = "text"
    /\ ~config.stream /\ config.includeSummary
    /\ Len(multiResult.Results) = 2
    /\ multiResult.Results[1].Success /\ ~multiResult.Results[2].Success
    /\ StartsWith(stdout[2], "1/2 ")
    /\ StartsWith(stdout[3], CheckMark \o " Go: ")
    /\ StartsWith(stdout[4], CrossMark \o " Python: ")
    /\ stdout[10] = "=== Python ===\n"

\* processMultipleQueries has returned (to a caller that is about to render).
Returned == pc = "output"

\* C19: processMultipleQueries returns in every run in which each engine
\* call returns and each delay ends, for every number of queries (none too)
\* and worker limit: it is never stuck before it returns, it does return,
\* and at the return no slot is held, the WaitGroup is at zero and every
\* goroutine has finished (so each slot that was taken has been released and
\* each goroutine has signalled completion by then).
C19_BatchTerminates ==
    /\ [](Returned \/ ENABLED (BatchMainStep \/ \E i \in Workers : WorkerStep(i)))
    /\ [](Returned => (sem = 0 /\ wg = 0 /\ spawned = N /\ \A i \in Workers : Done(i)))
    /\ <>Returned

\* With one slot and two queries, the second query took the slot the first
\* released, and the function returned with no slot held.
C19_Witness ==
    /\ Returned
    /\ N = 2 /\ config.workers = 1
    /\ Done(1) /\ Done(2)
    /\ Len(wlog[2]) = 2
    /\ sem = 0 /\ wg = 0

\* generateSummary runs or has run for query i.
SummarizerCalled(i) == wsumlog[i] # <<>> \/ wpc[i] \in {"summary", "sumsleep"}

\* C20: in a batch, an outcome has a summary iff summaries were requested
\* and its search succeeded, and the summary is then the text of the last
\* summary attempt or the sentinel; generateSummary is called only for a
\* successful search with includeSummary set and makes at most 2 attempts;
\* the text rendering of the batch, made with the same flag, never prints
\* the "No summary available" fallback.
C20_SummaryPresence ==
    /\ \A i \in Workers :
          /\ Done(i) =>
                /\ results[i].Summary # "" <=>
                      (config.includeSummary /\ SearchSucceeded(wlog[i]))
                /\ results[i].Summary # "" =>
                      /\ results[i].Success
                      /\ IF AttemptSucceeded(Last(wsumlog[i]))
                         THEN results[i].Summary = Last(wsumlog[i]).text
                         ELSE results[i].Summary = SummarySentinel
          /\ SummarizerCalled(i) => (config.includeSummary /\ SearchSucceeded(wlog[i]))
          /\ Len(wsumlog[i]) + (IF wpc[i] = "summary" THEN 1 ELSE 0) <= 2
          /\ Len(wsumlog[i]) = 2 => ~AttemptSucceeded(wsumlog[i][1])
    /\ (BatchReturned /\ pc = "exited" /\ outputMode = "text") =>
          \A j \in 1..Len(stdout) : ~Contains(stdout[j], NoSummaryText)

\* A batch with summaries rendered as text: the first query has the
\* sentinel, the second a summary from the second attempt, the third line
\* of the output shows the sentinel after the success mark.
C20_Witness ==
    /\ BatchReturned /\ pc = "exited" /\ outputMode = "text"
    /\ N = 2 /\ config.includeSummary
    /\ results[1].Summary = SummarySentinel
    /\ Len(wsumlog[2]) = 2
    /\ results[2].Summary = SummaryAnswer("Python", results[2].Response, 2)
    /\ stdout[3] = CheckMark \o " Go: " \o SummarySentinel \o "\n"

\* The executor of the single-query path has returned to main.
SingleReturned == MainSearchReturned \/ StreamReturned

\* main was given a non-nil error by the executor: handleError wrote its line.
ErrorReported ==
    stderr # <<>> /\ StartsWith(Last(stderr), "Error: Search failed: ")

\* C21: on the single-query path the executor's error is non-nil (main
\* reports it through handleError) iff the outcome has success=false; a
\* failed outcome ends the process with status 1 with no call of Output and
\* no call of the summarizer, and the non-streaming path has then printed
\* nothing on stdout; Output and the summarizer only ever see a success.
C21_FailedSingleQueryNotRendered ==
    /\ SingleReturned =>
          /\ ~result.Success <=> ErrorReported
          /\ ~result.Success =>
                /\ pc = "exited" /\ exitCode = 1
                /\ outputMode = "unread"
                /\ msumlog = <<>>
                /\ mlog # <<>> => stdout = <<>>
          /\ result.Success => stderr = <<>>
    /\ (config.query # "" /\ outputMode # "unread") => (SingleReturned /\ result.Success)
    /\ (pc \in {"summary", "sumsleep"} \/ msumlog # <<>>) => (SingleReturned /\ result.Success)

\* A single query whose attempts gave an error and then an empty text: the
\* process ended with status 1, the error line on stderr and nothing on stdout.
C21_Witness ==
    /\ pc = "exited"
    /\ mlog = <<ErrResponse(TransportError), TextResponse("")>>
    /\ ~result.Success
    /\ exitCode = 1
    /\ outputMode = "unread"
    /\ stdout = <<>>
    /\ Last(stderr) = ErrorLine("Search failed", "received empty response after retries")

====
